---- MODULE Spec2Model ----
(***************************************************************************)
(* A model of browser-selector's browser discovery                         *)
(* (src/os/macos/sys_browsers.rs), of its icon conversion and list         *)
(* building (src/ui.rs) and of its event loop (src/main.rs).               *)
(*                                                                         *)
(* Spec      : read_system_browsers_sync over a small file system whose    *)
(*             entries are drawn from a set of representative manifests.   *)
(* SpecPlist : the same scan over a file system holding one application    *)
(*             whose manifest is drawn from a structurally generated set.  *)
(* SpecIcon  : hicon_to_software_bitmap, one action per Windows API call.  *)
(* SpecXaml  : software_bitmap_to_xaml_image over every pixel format and   *)
(*             alpha mode.                                                 *)
(* SpecList  : create_list over short lists of items, titles repeated.     *)
(* SpecMain  : main from the scan result on: the list made of it and the   *)
(*             closure of the event loop, called once per event.           *)
(***************************************************************************)
EXTENDS Integers, Sequences, FiniteSets, TLC

VARIABLES
    \* ---- the environment of the scan
    fs,                 \* the two root directories: readable?, entries
    existing,           \* the files that exist on disk, besides the manifests
    debug_assertions,   \* cfg(debug_assertions) of the build
    \* ---- read_system_browsers_sync
    pc,                 \* "dir", "entries", "finish", "returned", "panicked", "idle"
    dir_idx,            \* position of the outer try_for_each in directories
    pos,                \* position of the inner try_for_each in the listing
    browsers,           \* let mut browsers: Vec<Browser>
    reading_results,    \* the value of the outer try_for_each
    stdout,             \* the lines println! has written
    result,             \* the Vec<Browser> returned to the caller
    \* ---- hicon_to_software_bitmap
    ipc,                \* position inside the function
    dib,                \* dib.dsBm: bmWidth, bmHeight, bmBitsPixel, bmBits null?
    bytes_read,         \* what GetObjectW returned
    img_bytes_read,     \* what GetBitmapBits returned (-1: not called)
    pixel_bytes,        \* length of the pixel byte vector (-1: none)
    written,            \* bytes given to DataWriter::write_bytes (-1: none)
    allocated,          \* GetIconInfo has created hbmColor and hbmMask
    deleted,            \* DeleteObject calls on hbmColor and on hbmMask
    iret,               \* what the function returned: "none", "ok", "err"
    \* ---- software_bitmap_to_xaml_image
    xpc,                \* position inside the function
    bmp,                \* the SoftwareBitmap given: pixel format, alpha mode
    bgra8_bmp,          \* the bitmap the match yields
    converted,          \* convert_with_alpha has been applied
    xret,               \* what the function returned: "none", "ok", "err"
    \* ---- create_list
    lpc,                \* position inside the function
    list_items,         \* the items given
    sorted_items,       \* let mut sorted_items
    list_control,       \* list_control.items(), in display order
    \* ---- main
    mpc,                \* position inside main
    control_flow,       \* *control_flow as the event loop sees it
    event,              \* the event the closure handled last
    events,             \* how many events the closure has handled
    opened              \* the browsers open_url was called with, in order

scan_vars == <<fs, existing, debug_assertions, pc, dir_idx, pos, browsers,
               reading_results, stdout, result>>
icon_vars == <<ipc, dib, bytes_read, img_bytes_read, pixel_bytes, written,
               allocated, deleted, iret>>
xaml_vars == <<xpc, bmp, bgra8_bmp, converted, xret>>
list_vars == <<lpc, list_items, sorted_items, list_control>>
main_vars == <<mpc, control_flow, event, events, opened>>
ui_vars == <<xpc, bmp, bgra8_bmp, converted, xret, lpc, list_items, sorted_items, list_control,
             mpc, control_flow, event, events, opened>>
vars == <<fs, existing, debug_assertions, pc, dir_idx, pos, browsers,
          reading_results, stdout, result,
          ipc, dib, bytes_read, img_bytes_read, pixel_bytes, written,
          allocated, deleted, iret,
          xpc, bmp, bgra8_bmp, converted, xret, lpc, list_items, sorted_items, list_control,
          mpc, control_flow, event, events, opened>>

(***************************************************************************)
(* Bounds of the model.                                                    *)
(***************************************************************************)
\* entries in the two root directories together (Spec)
MaxEntries == 3
\* URL-type entries in one CFBundleURLTypes array (SpecPlist)
MaxTypes == 2
\* largest bmWidth and bmHeight of an icon bitmap (SpecIcon)
MaxDim == 2

(***************************************************************************)
(* Result and Option values.                                               *)
(***************************************************************************)
Ok(v) == [ok |-> TRUE, v |-> v, err |-> ""]
Err(v0, msg) == [ok |-> FALSE, v |-> v0, err |-> msg]
Some(v) == [some |-> TRUE, v |-> v]
None(v0) == [some |-> FALSE, v |-> v0]

(***************************************************************************)
(* plist::Value, as far as the scan looks into it.  A value has a kind k;  *)
(* a string carries its text s, an array its items a, a URL-type           *)
(* dictionary its CFBundleURLSchemes value.  Kind "absent" stands for a    *)
(* key the dictionary does not hold (Dictionary::get returns None).        *)
(***************************************************************************)
Str(s) == [k |-> "string", s |-> s]
Integer == [k |-> "integer", s |-> ""]
Absent == [k |-> "absent", s |-> ""]

Arr(a) == [k |-> "array", a |-> a]
NotArr == [k |-> "string", a |-> <<>>]
AbsentArr == [k |-> "absent", a |-> <<>>]

UrlType(schemes) == [k |-> "dictionary", schemes |-> schemes]
NotDictUrlType == [k |-> "string", schemes |-> AbsentArr]

Dict(types, exe, name, ver) ==
    [CFBundleURLTypes |-> types, CFBundleExecutable |-> exe,
     CFBundleName |-> name, CFBundleShortVersionString |-> ver]

\* Value::as_string
as_string(v) == IF v.k = "string" THEN Some(v.s) ELSE None("")

(***************************************************************************)
(* std::path.  A path is the sequence of its components; a leading "/" is  *)
(* the root component.  Path::join replaces the path when the joined one   *)
(* is absolute and appends its components otherwise; joining the empty     *)
(* path leaves a trailing separator (an empty last component).             *)
(***************************************************************************)
PathOfName(s) ==
    CASE s = "/bin/sh" -> <<"/", "bin", "sh">>
      [] OTHER -> <<s>>

IsAbsolute(p) == p # <<>> /\ p[1] = "/"

Join(p, q) == IF IsAbsolute(q) THEN q ELSE p \o q

RECURSIVE JoinSep(_)
JoinSep(p) ==
    IF p = <<>> THEN ""
    ELSE IF Len(p) = 1 THEN p[1]
    ELSE p[1] \o "/" \o JoinSep(Tail(p))

\* Path::to_string_lossy (every component here is valid UTF-8)
PathStr(p) == IF IsAbsolute(p) THEN "/" \o JoinSep(Tail(p)) ELSE JoinSep(p)

\* Path::exists: p names a file on disk, or a directory that holds one; an
\* empty last component (a trailing separator) names a directory only
Exists(p) ==
    LET named == SelectSeq(p, LAMBDA c : c # "")
    IN  /\ named # <<>>
        /\ \E f \in existing :
              /\ Len(named) <= Len(f)
              /\ SubSeq(f, 1, Len(named)) = named
              /\ (p[Len(p)] = "") => Len(named) < Len(f)

(***************************************************************************)
(* supported_url_schemes_from_appinfo                                      *)
(***************************************************************************)
urls_required == {"https", "http"}

\* the closure of the first pass: one URL-type entry to its schemes, a
\* scheme that is no string becoming the empty string (unwrap_or_default)
EntrySchemesDefault(item) ==
    IF item.k # "dictionary"
    THEN Err(<<>>, "Cannot read CFBundleURLTypes as dictionary.")
    ELSE IF item.schemes.k = "absent"
    THEN Err(<<>>, "No CFBundleURLSchemes key found.")
    ELSE IF item.schemes.k # "array"
    THEN Err(<<>>, "Cannot read CFBundleURLSchemes as array.")
    ELSE Ok([i \in 1..Len(item.schemes.a) |->
                LET o == as_string(item.schemes.a[i])
                IN  IF o.some THEN o.v ELSE ""])

\* try_fold of the first pass: stops at the first malformed entry
RECURSIVE FoldSchemes(_, _)
FoldSchemes(items, res) ==
    IF items = <<>> THEN Ok(res)
    ELSE LET item == EntrySchemesDefault(Head(items))
         IN  IF ~item.ok THEN Err(<<>>, item.err)
             ELSE FoldSchemes(Tail(items), res \o item.v)

\* the closure of the second pass: one URL-type entry to Vec<Option<&str>>
EntrySchemesOption(item) ==
    IF item.k # "dictionary"
    THEN Err(<<>>, "Cannot read CFBundleURLTypes as dictionary.")
    ELSE IF item.schemes.k = "absent"
    THEN Err(<<>>, "No CFBundleURLSchemes key found.")
    ELSE IF item.schemes.k # "array"
    THEN Err(<<>>, "Cannot read CFBundleURLSchemes as array.")
    ELSE Ok([i \in 1..Len(item.schemes.a) |-> as_string(item.schemes.a[i])])

\* collect() of the second pass into BSResult<Vec<Vec<Option<&str>>>>
RECURSIVE CollectSchemes(_, _)
CollectSchemes(items, res) ==
    IF items = <<>> THEN Ok(res)
    ELSE LET item == EntrySchemesOption(Head(items))
         IN  IF ~item.ok THEN Err(<<>>, item.err)
             ELSE CollectSchemes(Tail(items), Append(res, item.v))

\* into_iter().flatten().filter(Option::is_some).map(Option::unwrap)
RECURSIVE FlattenSome(_)
FlattenSome(vv) ==
    IF vv = <<>> THEN <<>>
    ELSE LET v == Head(vv)
             somes == SelectSeq(v, LAMBDA o : o.some)
         IN  [i \in 1..Len(somes) |-> somes[i].v] \o FlattenSome(Tail(vv))

\* the second pass: None when CFBundleURLTypes is no array, else Some of
\* the flattened strings, or of the empty list when any entry is malformed
SchemasOption(app_info_dict) ==
    IF app_info_dict.CFBundleURLTypes.k # "array" THEN None(<<>>)
    ELSE LET bundle_schemes_result == CollectSchemes(app_info_dict.CFBundleURLTypes.a, <<>>)
         IN  IF ~bundle_schemes_result.ok THEN Some(<<>>)
             ELSE Some(FlattenSome(bundle_schemes_result.v))

NoPair == [url_schemes_result |-> Ok(<<>>), url_schemas_option |-> None(<<>>)]

supported_url_schemes_from_appinfo(app_info_dict) ==
    IF app_info_dict.CFBundleURLTypes.k = "absent"
    THEN Err(NoPair, "No CFBundleURLTypes")
    ELSE IF app_info_dict.CFBundleURLTypes.k # "array"
    THEN Err(NoPair, "Cannot read CFBundleURLTypes as array")
    ELSE Ok([url_schemes_result |-> FoldSchemes(app_info_dict.CFBundleURLTypes.a, <<>>),
             url_schemas_option |-> SchemasOption(app_info_dict)])

(***************************************************************************)
(* browser_from_plist                                                      *)
(***************************************************************************)
plist_props == <<"CFBundleExecutable", "CFBundleName", "CFBundleShortVersionString">>

DefaultBrowser ==
    [exe_path |-> "", arguments |-> <<>>, name |-> "", icon |-> "",
     exe_exists |-> FALSE, icon_exists |-> FALSE,
     version |-> [company_name |-> "", file_description |-> "",
                  product_version |-> "", product_name |-> "",
                  binary_type |-> "None"]]

\* PropValue with a missing or non-string property read as the empty string
PropValueOrDefault(dict, plist_prop) ==
    LET o == as_string(dict[plist_prop])
    IN  IF o.some THEN Ok(o.v) ELSE Ok("")

\* dict.get(plist_prop).ok_or(..)?.as_string().ok_or(..)
PropValue(dict, plist_prop) ==
    IF dict[plist_prop].k = "absent"
    THEN Err("", "No " \o plist_prop \o " found in Info.plist")
    ELSE LET o == as_string(dict[plist_prop])
         IN  IF ~o.some
             THEN Err("", "Cannot convert " \o plist_prop \o " to a string.")
             ELSE Ok(o.v)

\* try_fold over the three properties: stops at the first error
RECURSIVE FoldProps(_, _, _)
FoldProps(dict, i, acc) ==
    IF i > Len(plist_props) THEN Ok(acc)
    ELSE LET item == PropValue(dict, plist_props[i])
         IN  IF ~item.ok THEN Err(<<>>, item.err)
             ELSE FoldProps(dict, i + 1, Append(acc, item.v))

\* the candidate the three property values make
BrowserOf(prop_values, app_dir) ==
    LET bin_filename == prop_values[1]
        name == prop_values[2]
        version_code == prop_values[3]
        exe_path == Join(Join(app_dir, <<"MacOS">>), PathOfName(bin_filename))
    IN  [exe_path |-> PathStr(exe_path),
         exe_exists |-> Exists(exe_path),
         icon_exists |-> FALSE,
         version |-> [company_name |-> "", file_description |-> "",
                      product_version |-> version_code,
                      product_name |-> name,
                      binary_type |-> "None"],
         name |-> name,
         icon |-> "",
         arguments |-> <<>>]

\* browser_from_plist failing when the executable is not on disk
browser_from_plist_checked(dict, app_dir) ==
    LET prop_values == FoldProps(dict, 1, <<>>)
    IN  IF ~prop_values.ok THEN Err(DefaultBrowser, prop_values.err)
        ELSE IF ~BrowserOf(prop_values.v, app_dir).exe_exists
        THEN Err(DefaultBrowser, "Executable not found")
        ELSE Ok(BrowserOf(prop_values.v, app_dir))

browser_from_plist(dict, app_dir) ==
    LET prop_values == FoldProps(dict, 1, <<>>)
    IN  IF ~prop_values.ok THEN Err(DefaultBrowser, prop_values.err)
        ELSE Ok(BrowserOf(prop_values.v, app_dir))

(***************************************************************************)
(* read_system_browsers_sync                                               *)
(***************************************************************************)
directories == << <<"/", "Applications">>, <<"/", "System", "Applications">> >>

\* the name of the i-th entry of a listing
EntryName(i) == "App" \o ToString(i) \o ".app"

\* file.path() of the i-th entry of root r
EntryPath(r, i) == Join(directories[r], <<EntryName(i)>>)

\* the for_each over the schemes: one browser_from_plist call per scheme
\* that is in urls_required, its browser pushed or its error kept
RECURSIVE ForEachScheme(_, _, _, _)
ForEachScheme(schemes, app_info_dict, app_dir, acc) ==
    IF schemes = <<>> THEN acc
    ELSE LET scheme == Head(schemes)
             browser_info_res == browser_from_plist(app_info_dict, app_dir)
             acc1 == IF scheme \in urls_required
                     THEN IF browser_info_res.ok
                          THEN [acc EXCEPT !.browsers = Append(@, browser_info_res.v)]
                          ELSE [acc EXCEPT !.errors = Append(@, browser_info_res.err)]
                     ELSE acc
         IN  ForEachScheme(Tail(schemes), app_info_dict, app_dir, acc1)

DebugLine(line) == IF debug_assertions THEN <<line>> ELSE <<>>

\* The closure run on one directory entry: how it ends ("ok": Ok(()),
\* "err": an Err the try_for_each propagates, "panic": an unwrap on an
\* Err or a None), the browsers vector and the printed lines after it.
Closure(file, path, brs, out) ==
    LET info_plist_path == Join(Join(path, <<"Contents">>), <<"Info.plist">>)
        app_dir == Join(path, <<"Contents">>)
        finished == DebugLine("Finished reading " \o PathStr(info_plist_path))
        End(flow, err, b, o) == [flow |-> flow, err |-> err, browsers |-> b, stdout |-> o]
    IN  IF file.k = "direrror" THEN End("panic", "", brs, out)
        ELSE IF file.k = "nofile" THEN End("ok", "", brs, out)
        ELSE IF file.k = "unparseable" THEN End("panic", "", brs, out)
        ELSE IF file.k # "dictionary"
        THEN End("ok", "", brs,
                 out \o DebugLine("Could not read PList file " \o PathStr(info_plist_path))
                     \o finished)
        ELSE LET sup == supported_url_schemes_from_appinfo(file.d)
                 url_schemes_result == sup.v.url_schemes_result
                 url_schemas_option == sup.v.url_schemas_option
             IN  IF ~sup.ok THEN End("err", sup.err, brs, out)
                 ELSE IF ~url_schemas_option.some
                 THEN IF debug_assertions /\ url_schemes_result.ok
                      THEN End("panic", "", brs, out)
                      ELSE End("ok", "", brs,
                               out \o DebugLine("Error reading supported URL Schemes "
                                                \o url_schemes_result.err))
                 ELSE IF ~url_schemes_result.ok THEN End("panic", "", brs, out)
                 ELSE LET acc == ForEachScheme(url_schemes_result.v, file.d, app_dir,
                                               [browsers |-> brs, errors |-> <<>>])
                          issues == [i \in 1..Len(acc.errors) |->
                                        "PList reading issue: " \o acc.errors[i]]
                      IN  End("ok", "", acc.browsers, out \o issues \o finished)

\* read_dir(dir).unwrap(): the listing of the next root, or a panic
ReadDir ==
    /\ pc = "dir"
    /\ IF fs[dir_idx].readable
       THEN pc' = "entries" /\ pos' = 1
       ELSE pc' = "panicked" /\ pos' = pos
    /\ UNCHANGED <<fs, existing, debug_assertions, dir_idx, browsers,
                   reading_results, stdout, result>>
    /\ UNCHANGED icon_vars
    /\ UNCHANGED ui_vars

\* one step of the inner try_for_each: the closure on the next entry
ScanEntry ==
    /\ pc = "entries"
    /\ pos <= Len(fs[dir_idx].entries)
    /\ LET end == Closure(fs[dir_idx].entries[pos], EntryPath(dir_idx, pos),
                          browsers, stdout)
       IN  /\ browsers' = end.browsers
           /\ stdout' = end.stdout
           /\ CASE end.flow = "ok" ->
                     pc' = "entries" /\ pos' = pos + 1
                     /\ reading_results' = reading_results
                [] end.flow = "err" ->
                     pc' = "finish" /\ pos' = pos
                     /\ reading_results' = Err("", end.err)
                [] OTHER ->
                     pc' = "panicked" /\ pos' = pos
                     /\ reading_results' = reading_results
    /\ UNCHANGED <<fs, existing, debug_assertions, dir_idx, result>>
    /\ UNCHANGED icon_vars
    /\ UNCHANGED ui_vars

\* the inner try_for_each ends with Ok(()): the outer one takes the next
\* root, or ends with Ok(()) after the last
DirDone ==
    /\ pc = "entries"
    /\ pos > Len(fs[dir_idx].entries)
    /\ IF dir_idx < Len(directories)
       THEN pc' = "dir" /\ dir_idx' = dir_idx + 1
       ELSE pc' = "finish" /\ dir_idx' = dir_idx
    /\ UNCHANGED <<fs, existing, debug_assertions, pos, browsers,
                   reading_results, stdout, result>>
    /\ UNCHANGED icon_vars
    /\ UNCHANGED ui_vars

\* the end of the function: the debug report of reading_results, Ok(browsers)
Return ==
    /\ pc = "finish"
    /\ pc' = "returned"
    /\ result' = browsers
    /\ stdout' = IF ~reading_results.ok
                 THEN stdout \o DebugLine("Browser reading errors " \o reading_results.err)
                 ELSE stdout
    /\ UNCHANGED <<fs, existing, debug_assertions, dir_idx, pos, browsers,
                   reading_results>>
    /\ UNCHANGED icon_vars
    /\ UNCHANGED ui_vars

Next == ReadDir \/ ScanEntry \/ DirDone \/ Return

(***************************************************************************)
(* The file systems the scan runs over.                                    *)
(***************************************************************************)
File(k, d) == [k |-> k, d |-> d]
Root(entries) == [readable |-> TRUE, entries |-> entries]
UnreadableRoot == [readable |-> FALSE, entries |-> <<>>]

HttpTypes == Arr(<<UrlType(Arr(<<Str("http")>>))>>)
BothTypes == Arr(<<UrlType(Arr(<<Str("http"), Str("https")>>))>>)
FtpTypes == Arr(<<UrlType(Arr(<<Str("ftp")>>))>>)
MalformedTypes == Arr(<<NotDictUrlType, UrlType(Arr(<<Str("http")>>))>>)

GoodDict(types) == Dict(types, Str("Safari"), Str("Safari"), Str("17.0"))

\* the manifests of Spec: one for each way an entry can be read
Files ==
    { File("nofile", GoodDict(AbsentArr)),
      File("direrror", GoodDict(AbsentArr)),
      File("unparseable", GoodDict(AbsentArr)),
      File("array", GoodDict(AbsentArr)),
      File("dictionary", GoodDict(AbsentArr)),
      File("dictionary", GoodDict(NotArr)),
      File("dictionary", GoodDict(MalformedTypes)),
      File("dictionary", GoodDict(HttpTypes)),
      File("dictionary", GoodDict(BothTypes)),
      File("dictionary", GoodDict(FtpTypes)),
      File("dictionary", Dict(HttpTypes, Str("Safari"), Absent, Str("17.0"))) }

\* the listings of the two roots, max entries at most together
FileSystems(max) ==
    UNION { { <<Root(e1), Root(e2)>> : e1 \in [1..n[1] -> Files], e2 \in [1..n[2] -> Files] }
            : n \in { m \in (0..max) \X (0..max) : m[1] + m[2] <= max } }
    \cup { <<UnreadableRoot, Root(e2)>> : e2 \in UNION { [1..n -> Files] : n \in 0..max } }
    \cup { <<Root(e1), UnreadableRoot>> : e1 \in UNION { [1..n -> Files] : n \in 0..max } }
    \cup { <<UnreadableRoot, UnreadableRoot>> }

SafariPath == <<"/", "Applications", "App1.app", "Contents", "MacOS", "Safari">>

NoDib == [bmWidth |-> 0, bmHeight |-> 0, bmBitsPixel |-> 0, bmBits |-> FALSE]

NoBitmap == [format |-> "Unknown", alpha |-> "Ignore"]
NoEvent == [kind |-> "none", window_id |-> "none", state |-> "Released", index |-> 0]

XamlIdle ==
    /\ xpc = "idle"
    /\ bmp = NoBitmap
    /\ bgra8_bmp = NoBitmap
    /\ converted = FALSE
    /\ xret = "none"

ListIdle ==
    /\ lpc = "idle"
    /\ list_items = <<>>
    /\ sorted_items = <<>>
    /\ list_control = <<>>

MainIdle ==
    /\ mpc = "idle"
    /\ control_flow = "Poll"
    /\ event = NoEvent
    /\ events = 0
    /\ opened = <<>>

UiIdle == XamlIdle /\ ListIdle /\ MainIdle

IconIdle ==
    /\ ipc = "idle"
    /\ dib = NoDib
    /\ bytes_read = 0
    /\ img_bytes_read = -1
    /\ pixel_bytes = -1
    /\ written = -1
    /\ allocated = FALSE
    /\ deleted = [hbmColor |-> 0, hbmMask |-> 0]
    /\ iret = "none"

ScanStart ==
    /\ pc = "dir"
    /\ dir_idx = 1
    /\ pos = 1
    /\ browsers = <<>>
    /\ reading_results = Ok("")
    /\ stdout = <<>>
    /\ result = <<>>

Init ==
    /\ fs \in FileSystems(MaxEntries)
    /\ existing = {SafariPath}
    /\ debug_assertions \in BOOLEAN
    /\ ScanStart
    /\ IconIdle
    /\ UiIdle

Spec == Init /\ [][Next]_vars

(***************************************************************************)
(* SpecPlist: one application in /Applications, its manifest generated     *)
(* from the shapes a CFBundleURLTypes value and the three required fields  *)
(* can take.                                                               *)
(***************************************************************************)
SchemeItems == {Str("http"), Str("https"), Str("HTTP"), Str("https2"), Integer}

SchemeArrays ==
    {<<>>} \cup { <<x>> : x \in SchemeItems }
           \cup { <<x, y>> : x, y \in {Str("http"), Str("https"), Integer} }

UrlTypeEntries ==
    { NotDictUrlType, UrlType(AbsentArr), UrlType(NotArr) }
    \cup { UrlType(Arr(a)) : a \in SchemeArrays }

UrlTypesValues(max) ==
    { AbsentArr, NotArr }
    \cup { Arr(a) : a \in UNION { [1..n -> UrlTypeEntries] : n \in 0..max } }

ExecutableValues == {Absent, Integer, Str("Safari"), Str("/bin/sh"), Str("")}
NameValues == {Absent, Integer, Str("Safari"), Str("")}
VersionValues == {Absent, Integer, Str("17.0")}

\* every shape of CFBundleURLTypes, the required fields present
UrlTypesDicts(max) == { GoodDict(t) : t \in UrlTypesValues(max) }

\* every shape of the required fields, under three CFBundleURLTypes values
FieldsDicts ==
    { Dict(t, e, n, v) : t \in {HttpTypes, BothTypes, FtpTypes},
                         e \in ExecutableValues, n \in NameValues,
                         v \in VersionValues }

OneApp(d) == <<Root(<<File("dictionary", d)>>), Root(<<>>)>>

InitPlist ==
    /\ \/ /\ \E d \in UrlTypesDicts(MaxTypes) : fs = OneApp(d)
          /\ existing = {SafariPath}
       \/ /\ \E d \in FieldsDicts : fs = OneApp(d)
          /\ existing \in { {}, {SafariPath, <<"/", "bin", "sh">>} }
    /\ debug_assertions \in BOOLEAN
    /\ ScanStart
    /\ IconIdle
    /\ UiIdle

SpecPlist == InitPlist /\ [][Next]_vars

(***************************************************************************)
(* hicon_to_software_bitmap, one action per call into Windows.  Each       *)
(* action runs the function from one call to the next; what a call         *)
(* returns is chosen by the environment.                                   *)
(***************************************************************************)
\* size_of::<BITMAP>() and size_of::<DIBSECTION>()
bitmap_struct_size == 32
dib_struct_size == 104
\* a GetObjectW result that is neither structure's size
OtherSize == 24

BitsPerPixel == {1, 16, 24, 32}

\* i32::MAX
I32Max == 2147483647

\* what dib holds where GetObjectW has not written it: it is
\* MaybeUninit::uninit().assume_init(), whatever the stack held, here every
\* byte 0x7f
UninitLong == 2139062143
UninitWord == 32639

\* a * b leaves the i32 range (a, b >= 0)
MulOverflows(a, b) == b # 0 /\ a > I32Max \div b

\* the products of bmp_size_in_bytes leave the i32 range: with overflow
\* checks (a debug build) the function panics there
SizeOverflows(d) ==
    \/ MulOverflows(d.bmHeight, d.bmWidth)
    \/ MulOverflows(d.bmHeight * d.bmWidth, d.bmBitsPixel \div 8)

\* (dib.dsBm.bmHeight * dib.dsBm.bmWidth) * (dib.dsBm.bmBitsPixel as i32 / 8),
\* read where the structure was written: the bounds keep the product far
\* from the i32 range
bmp_size_in_bytes == (dib.bmHeight * dib.bmWidth) * (dib.bmBitsPixel \div 8)

\* the two DeleteObject calls
DeleteBoth == [hbmColor |-> deleted.hbmColor + 1, hbmMask |-> deleted.hbmMask + 1]

\* the two DeleteObject calls followed by bail!
DeleteAndBail ==
    /\ deleted' = DeleteBoth
    /\ ipc' = "done"
    /\ iret' = "err"

\* a winrt call failing under the ? operator: the function returns at once
QuestionMarkReturn ==
    /\ deleted' = deleted
    /\ ipc' = "done"
    /\ iret' = "err"

\* GetIconInfo: 0 is a failure, else hbmColor and hbmMask are created
GetIconInfo ==
    /\ ipc = "start"
    /\ \E icon_result \in {0, 1} :
          IF icon_result = 0
          THEN ipc' = "done" /\ iret' = "err" /\ allocated' = FALSE
          ELSE ipc' = "GetObjectW" /\ iret' = iret /\ allocated' = TRUE
    /\ UNCHANGED <<dib, bytes_read, img_bytes_read, pixel_bytes, written, deleted>>
    /\ UNCHANGED scan_vars
    /\ UNCHANGED ui_vars

\* GetObjectW and the match on bytes_read up to the pixel transfer.  A
\* result that is neither structure's size may have left dib, or a part of
\* it, unwritten.
GetObjectW ==
    /\ ipc = "GetObjectW"
    /\ \E n \in {0, bitmap_struct_size, dib_struct_size, OtherSize},
          w \in (1..MaxDim) \cup {UninitLong}, h \in (1..MaxDim) \cup {UninitLong},
          bpp \in BitsPerPixel \cup {UninitWord}, bits \in BOOLEAN :
          /\ (n # OtherSize) => (w # UninitLong /\ h # UninitLong /\ bpp # UninitWord)
          /\ bytes_read' = n
          /\ dib' = IF n = 0 THEN NoDib
                    ELSE [bmWidth |-> w, bmHeight |-> h, bmBitsPixel |-> bpp,
                          bmBits |-> (n = dib_struct_size /\ bits)]
          /\ IF n = 0
             THEN DeleteAndBail /\ pixel_bytes' = pixel_bytes
             ELSE IF debug_assertions /\ SizeOverflows(dib')
             THEN /\ ipc' = "panicked"
                  /\ iret' = "panic"
                  /\ UNCHANGED <<deleted, pixel_bytes>>
             ELSE IF n = bitmap_struct_size
             THEN /\ ipc' = "GetBitmapBits"
                  /\ pixel_bytes' = pixel_bytes
                  /\ UNCHANGED <<deleted, iret>>
             ELSE IF n = dib_struct_size /\ dib'.bmBits
             THEN /\ ipc' = "DataWriter"
                  /\ pixel_bytes' = (h * w) * (bpp \div 8)
                  /\ UNCHANGED <<deleted, iret>>
             ELSE DeleteAndBail /\ pixel_bytes' = pixel_bytes
    /\ UNCHANGED <<img_bytes_read, written, allocated>>
    /\ UNCHANGED scan_vars
    /\ UNCHANGED ui_vars

\* GetBitmapBits into a vector of bmp_size_in_bytes zeroes: only a result
\* of 0 is an error
GetBitmapBits ==
    /\ ipc = "GetBitmapBits"
    /\ \E n \in 0..bmp_size_in_bytes :
          /\ img_bytes_read' = n
          /\ IF n = 0
             THEN DeleteAndBail /\ pixel_bytes' = pixel_bytes
             ELSE /\ ipc' = "DataWriter"
                  /\ pixel_bytes' = bmp_size_in_bytes
                  /\ UNCHANGED <<deleted, iret>>
    /\ UNCHANGED <<dib, bytes_read, written, allocated>>
    /\ UNCHANGED scan_vars
    /\ UNCHANGED ui_vars

\* wrt::DataWriter::new()?
DataWriterNew ==
    /\ ipc = "DataWriter"
    /\ \E ok \in BOOLEAN :
          IF ok THEN ipc' = "write_bytes" /\ UNCHANGED <<deleted, iret>>
          ELSE QuestionMarkReturn
    /\ UNCHANGED <<dib, bytes_read, img_bytes_read, pixel_bytes, written, allocated>>
    /\ UNCHANGED scan_vars
    /\ UNCHANGED ui_vars

\* data_writer.write_bytes(as_u8_slice(&raw_pixels[..]))?, raw_pixels being
\* the whole 4-byte chunks of pixel_bytes (chunks_exact drops the rest)
WriteBytes ==
    /\ ipc = "write_bytes"
    /\ \E ok \in BOOLEAN :
          IF ok
          THEN /\ ipc' = "detach_buffer"
               /\ written' = (pixel_bytes \div 4) * 4
               /\ UNCHANGED <<deleted, iret>>
          ELSE QuestionMarkReturn /\ written' = written
    /\ UNCHANGED <<dib, bytes_read, img_bytes_read, pixel_bytes, allocated>>
    /\ UNCHANGED scan_vars
    /\ UNCHANGED ui_vars

\* data_writer.detach_buffer()?
DetachBuffer ==
    /\ ipc = "detach_buffer"
    /\ \E ok \in BOOLEAN :
          IF ok THEN ipc' = "create_copy" /\ UNCHANGED <<deleted, iret>>
          ELSE QuestionMarkReturn
    /\ UNCHANGED <<dib, bytes_read, img_bytes_read, pixel_bytes, written, allocated>>
    /\ UNCHANGED scan_vars
    /\ UNCHANGED ui_vars

\* SoftwareBitmap::create_copy_with_alpha_from_buffer(..)?, then the two
\* DeleteObject calls and return Ok(software_bitmap)
CreateCopy ==
    /\ ipc = "create_copy"
    /\ \E ok \in BOOLEAN :
          IF ok
          THEN deleted' = DeleteBoth /\ ipc' = "done" /\ iret' = "ok"
          ELSE QuestionMarkReturn
    /\ UNCHANGED <<dib, bytes_read, img_bytes_read, pixel_bytes, written, allocated>>
    /\ UNCHANGED scan_vars
    /\ UNCHANGED ui_vars

NextIcon ==
    \/ GetIconInfo \/ GetObjectW \/ GetBitmapBits
    \/ DataWriterNew \/ WriteBytes \/ DetachBuffer \/ CreateCopy

InitIcon ==
    /\ fs = <<Root(<<>>), Root(<<>>)>>
    /\ existing = {}
    /\ debug_assertions \in BOOLEAN
    /\ pc = "idle"
    /\ dir_idx = 1
    /\ pos = 1
    /\ browsers = <<>>
    /\ reading_results = Ok("")
    /\ stdout = <<>>
    /\ result = <<>>
    /\ ipc = "start"
    /\ dib = NoDib
    /\ bytes_read = 0
    /\ img_bytes_read = -1
    /\ pixel_bytes = -1
    /\ written = -1
    /\ allocated = FALSE
    /\ deleted = [hbmColor |-> 0, hbmMask |-> 0]
    /\ iret = "none"
    /\ UiIdle

SpecIcon == InitIcon /\ [][NextIcon]_vars

(***************************************************************************)
(* What the claims speak of, stated on the file system and the manifests   *)
(* themselves rather than through the functions above.                     *)
(***************************************************************************)
\* the directory entries: <<root, position>>
Entries == { e \in (1..Len(fs)) \X (1..(MaxEntries + 1)) : e[2] <= Len(fs[e[1]].entries) }

FileAt(e) == fs[e[1]].entries[e[2]]

IsDict(e) == FileAt(e).k = "dictionary"

AllReadable == \A r \in 1..Len(fs) : fs[r].readable

\* every URL-type entry is a dictionary holding a CFBundleURLSchemes array
WellFormedEntry(t) == t.k = "dictionary" /\ t.schemes.k = "array"

WellFormedTypes(d) ==
    /\ d.CFBundleURLTypes.k = "array"
    /\ \A i \in 1..Len(d.CFBundleURLTypes.a) : WellFormedEntry(d.CFBundleURLTypes.a[i])

\* the entry declares a scheme that is the string "http" or "https"
EntryDeclaresWeb(t) ==
    /\ WellFormedEntry(t)
    /\ \E j \in 1..Len(t.schemes.a) :
          t.schemes.a[j].k = "string" /\ t.schemes.a[j].s \in {"http", "https"}

DeclaresWeb(d) ==
    /\ d.CFBundleURLTypes.k = "array"
    /\ \E i \in 1..Len(d.CFBundleURLTypes.a) : EntryDeclaresWeb(d.CFBundleURLTypes.a[i])

RequiredFields == {"CFBundleExecutable", "CFBundleName", "CFBundleShortVersionString"}

BadFields(d) == { f \in RequiredFields : d[f].k # "string" }

FieldsPresent(d) == BadFields(d) = {}

\* a valid browser application: a dictionary manifest, well-formed URL
\* types declaring http or https, the three required fields
ValidApp(e) ==
    /\ IsDict(e)
    /\ WellFormedTypes(FileAt(e).d)
    /\ DeclaresWeb(FileAt(e).d)
    /\ FieldsPresent(FileAt(e).d)

\* the text of the executable's path: the entry's Contents/MacOS directory
\* and the declared name, or the declared name alone when it is absolute
ExeText(e) ==
    LET exe == FileAt(e).d.CFBundleExecutable.s
    IN  IF exe = "/bin/sh" THEN exe
        ELSE "/" \o JoinSep(Tail(directories[e[1]])) \o "/" \o EntryName(e[2])
                 \o "/Contents/MacOS/" \o exe

\* how many records of a browser list were made from entry e
Records(list, e) == Cardinality({ k \in 1..Len(list) : list[k].exe_path = ExeText(e) })

\* the closure has run on entry e (to its end, to an Err or to a panic)
Reached(e) ==
    \/ dir_idx > e[1]
    \/ /\ dir_idx = e[1]
       /\ pc \in {"entries", "finish", "returned", "panicked"}
       /\ \/ pos > e[2]
          \/ pos = e[2] /\ pc \in {"finish", "returned", "panicked"}

Printed(line) == \E k \in 1..Len(stdout) : stdout[k] = line

(***************************************************************************)
(* The claims.                                                             *)
(***************************************************************************)
\* C1: with both roots listable, the scan ends by returning, and every
\* valid browser application of either root is in the returned list,
\* whatever other entries are broken and wherever they sit.
C1_BrokenEntryNeverStopsScan ==
    (AllReadable /\ pc \in {"returned", "panicked"}) =>
        /\ pc = "returned"
        /\ \A e \in Entries : ValidApp(e) => Records(result, e) >= 1

\* C2: a scan that went through every entry of both roots returns exactly
\* as many candidates as there are valid applications, one for each.
C2_OneRecordPerValidApp ==
    (pc = "returned" /\ reading_results.ok) =>
        /\ Len(result) = Cardinality({ e \in Entries : ValidApp(e) })
        /\ \A e \in Entries : ValidApp(e) => Records(result, e) = 1

\* C3: an application whose required fields are present and whose URL
\* types are well-formed is in the scan result if and only if one of its
\* schemes is the string "http" or "https".
C3_IncludedIffDeclaresWeb ==
    pc = "returned" =>
        \A e \in Entries :
            (IsDict(e) /\ FieldsPresent(FileAt(e).d) /\ WellFormedTypes(FileAt(e).d))
                => (Records(result, e) >= 1 <=> DeclaresWeb(FileAt(e).d))

\* C4: once the scan has handled a manifest without CFBundleURLTypes, the
\* application is not in the list, no error value has come of it and no
\* diagnostic is printed for it.
C4_MissingUrlTypesIsNoError ==
    \A e \in Entries :
        (IsDict(e) /\ FileAt(e).d.CFBundleURLTypes.k = "absent" /\ Reached(e)) =>
            /\ Records(browsers, e) = 0
            /\ supported_url_schemes_from_appinfo(FileAt(e).d).ok
            /\ reading_results.ok
            /\ ~Printed("Browser reading errors No CFBundleURLTypes")

\* C5: once the scan has handled a manifest whose URL types hold a
\* malformed entry beside a well-formed one declaring http or https (the
\* required fields present), the scan has not failed and the application
\* is in the list.
C5_MalformedEntryDoesNotExcludeOthers ==
    \A e \in Entries :
        ( /\ IsDict(e) /\ Reached(e)
          /\ FieldsPresent(FileAt(e).d)
          /\ DeclaresWeb(FileAt(e).d)
          /\ ~WellFormedTypes(FileAt(e).d) ) =>
            /\ pc # "panicked"
            /\ Records(browsers, e) >= 1

\* the error browser_from_plist owes to field f of manifest d
FieldError(d, f) ==
    IF d[f].k = "absent" THEN "No " \o f \o " found in Info.plist"
    ELSE "Cannot convert " \o f \o " to a string."

\* C6: for a manifest with a required field missing or not a string,
\* browser_from_plist returns an error naming such a field (the field,
\* when only one is bad); the entry is never in the list, and where the
\* scan came to extract it the error is printed as a diagnostic.
C6_MissingFieldIsNamedAndNeverListed ==
    \A e \in Entries :
        (IsDict(e) /\ ~FieldsPresent(FileAt(e).d)) =>
            LET d == FileAt(e).d
                r == browser_from_plist(d, Join(EntryPath(e[1], e[2]), <<"Contents">>))
            IN  /\ ~r.ok
                /\ \E f \in BadFields(d) : r.err = FieldError(d, f)
                /\ browsers = <<>> /\ result = <<>>
                /\ (Reached(e) /\ pc # "panicked" /\ WellFormedTypes(d) /\ DeclaresWeb(d))
                      => Printed("PList reading issue: " \o r.err)

\* C6's case: the scan has handled a manifest that declares http and lacks
\* a required field, and has printed the diagnostic.
C6_Witness ==
    /\ pc = "returned"
    /\ \E e \in Entries :
          /\ IsDict(e) /\ DeclaresWeb(FileAt(e).d)
          /\ BadFields(FileAt(e).d) = {"CFBundleName"}
          /\ Printed("PList reading issue: No CFBundleName found in Info.plist")

\* the path of this text is on disk: it is a file of the disk, or a
\* directory above one, written with or without the separator at its end
OnDisk(text) ==
    \E f \in existing :
        \/ PathStr(f) = text
        \/ \E n \in 1..(Len(f) - 1) :
              \/ PathStr(SubSeq(f, 1, n)) = text
              \/ n > 1 /\ PathStr(SubSeq(f, 1, n)) \o "/" = text

\* C7: with the three required fields present browser_from_plist returns a
\* candidate, the executable on disk or not: exe_path is the entry's
\* Contents directory joined with MacOS and the declared name, exe_exists
\* says whether that path exists, icon, company name, description and
\* arguments are empty; the records the scan lists are this candidate.
C7_CandidateWhetherOrNotExeExists ==
    \A e \in Entries :
        (IsDict(e) /\ FieldsPresent(FileAt(e).d)) =>
            LET d == FileAt(e).d
                r == browser_from_plist(d, Join(EntryPath(e[1], e[2]), <<"Contents">>))
            IN  /\ r.ok
                /\ r.v.exe_path = ExeText(e)
                /\ r.v.exe_exists = OnDisk(ExeText(e))
                /\ r.v.name = d.CFBundleName.s
                /\ r.v.icon = "" /\ r.v.arguments = <<>>
                /\ r.v.version.company_name = ""
                /\ r.v.version.file_description = ""
                /\ \A k \in 1..Len(browsers) : browsers[k] = r.v
                /\ (Reached(e) /\ pc # "panicked" /\ WellFormedTypes(d) /\ DeclaresWeb(d))
                      => Len(browsers) >= 1

\* C7's case: the scan has returned a candidate whose executable is not on
\* disk.
C7_Witness ==
    /\ pc = "returned"
    /\ Len(result) >= 1
    /\ ~result[1].exe_exists
    /\ result[1].exe_path = "/Applications/App1.app/Contents/MacOS/Safari"

\* C8: the scan does not fail on a root directory it cannot list.
C8_UnreadableRootDoesNotFailScan ==
    ~(pc = "panicked" /\ ~fs[dir_idx].readable)

\* C9: once GetIconInfo has succeeded, the function has, when it returns,
\* released the color bitmap and the mask bitmap, each exactly once.
C9_BitmapsReleasedOnEveryReturn ==
    (ipc = "done" /\ allocated) => (deleted.hbmColor = 1 /\ deleted.hbmMask = 1)

\* C10: a pixel transfer that obtained another number of bytes than
\* width*height*bytes_per_pixel ends the conversion with an error and its
\* buffer is never written to the image.
C10_SizeMismatchIsAnError ==
    (img_bytes_read # -1 /\ img_bytes_read # bmp_size_in_bytes) =>
        (ipc = "done" /\ iret = "err" /\ written = -1)

(***************************************************************************)
(* software_bitmap_to_xaml_image (ui.rs).  A SoftwareBitmap is its pixel    *)
(* format and its alpha mode; every WinRT call followed by ? either         *)
(* succeeds or makes the function return the error.                         *)
(***************************************************************************)
BitmapPixelFormat ==
    {"Unknown", "Rgba16", "Rgba8", "Gray16", "Gray8", "Bgra8", "Nv12", "P010", "Yuy2"}
BitmapAlphaMode == {"Premultiplied", "Straight", "Ignore"}

\* SoftwareBitmap::convert_with_alpha(bmp, format, alpha)
convert_with_alpha(b, format, alpha) == [format |-> format, alpha |-> alpha]

\* the value of the match on the pixel format, once the arm has succeeded
MatchArm(b) ==
    IF b.format = "Bgra8"
    THEN convert_with_alpha(b, "Bgra8", "Premultiplied")
    ELSE b

XamlFail ==
    /\ xpc' = "done"
    /\ xret' = "err"

\* bmp.bitmap_pixel_format()?
GetPixelFormat ==
    /\ xpc = "start"
    /\ \/ /\ xpc' = "match"
          /\ UNCHANGED xret
       \/ XamlFail
    /\ UNCHANGED <<bmp, bgra8_bmp, converted>>
    /\ UNCHANGED <<scan_vars, icon_vars, list_vars, main_vars>>

\* let bgra8_bmp = match ... { Bgra8 => convert_with_alpha(..)?, _ => bmp }
MatchFormat ==
    /\ xpc = "match"
    /\ \/ /\ bgra8_bmp' = MatchArm(bmp)
          /\ converted' = (bmp.format = "Bgra8")
          /\ xpc' = "image_new"
          /\ UNCHANGED xret
       \/ /\ bmp.format = "Bgra8"
          /\ XamlFail
          /\ UNCHANGED <<bgra8_bmp, converted>>
    /\ UNCHANGED bmp
    /\ UNCHANGED <<scan_vars, icon_vars, list_vars, main_vars>>

\* a WinRT call of the tail of the function that touches no bitmap
XamlCall(from, to) ==
    /\ xpc = from
    /\ \/ /\ xpc' = to
          /\ UNCHANGED xret
       \/ XamlFail
    /\ UNCHANGED <<bmp, bgra8_bmp, converted>>
    /\ UNCHANGED <<scan_vars, icon_vars, list_vars, main_vars>>

\* let image_control = Image::new()?
ImageNew == XamlCall("image_new", "source_new")

\* let img_src = SoftwareBitmapSource::new()?
SoftwareBitmapSourceNew == XamlCall("source_new", "set_bitmap_async")

\* img_src.set_bitmap_async(bgra8_bmp)?
SetBitmapAsync == XamlCall("set_bitmap_async", "set_source")

\* image_control.set_source(..)?; return Ok(image_control)
SetSource ==
    /\ xpc = "set_source"
    /\ xpc' = "done"
    /\ xret' \in {"ok", "err"}
    /\ UNCHANGED <<bmp, bgra8_bmp, converted>>
    /\ UNCHANGED <<scan_vars, icon_vars, list_vars, main_vars>>

NextXaml ==
    \/ GetPixelFormat
    \/ MatchFormat
    \/ ImageNew
    \/ SoftwareBitmapSourceNew
    \/ SetBitmapAsync
    \/ SetSource

ScanIdle ==
    /\ fs = <<Root(<<>>), Root(<<>>)>>
    /\ existing = {}
    /\ debug_assertions = FALSE
    /\ pc = "idle"
    /\ dir_idx = 1
    /\ pos = 1
    /\ browsers = <<>>
    /\ reading_results = Ok("")
    /\ stdout = <<>>
    /\ result = <<>>

InitXaml ==
    /\ ScanIdle
    /\ IconIdle
    /\ ListIdle
    /\ MainIdle
    /\ xpc = "start"
    /\ bmp \in [format : BitmapPixelFormat, alpha : BitmapAlphaMode]
    /\ bgra8_bmp = NoBitmap
    /\ converted = FALSE
    /\ xret = "none"

SpecXaml == InitXaml /\ [][NextXaml]_vars

(***************************************************************************)
(* Strings as Rust compares them.  A String is its UTF-8 bytes; the texts   *)
(* the list and the event loop are run on are written out byte by byte.     *)
(***************************************************************************)
UTF8(s) ==
    CASE s = "" -> <<>>
      [] s = "Alpha" -> <<65, 108, 112, 104, 97>>
      [] s = "Zeta" -> <<90, 101, 116, 97>>
      [] s = "alpha" -> <<97, 108, 112, 104, 97>>
      [] s = "1.0" -> <<49, 46, 48>>
      [] s = "2.0" -> <<50, 46, 48>>

\* a <= b for two Strings: byte by byte, a proper prefix before the longer
RECURSIVE StringLeq(_, _)
StringLeq(a, b) ==
    IF a = <<>> THEN TRUE
    ELSE IF b = <<>> THEN FALSE
    ELSE IF a[1] < b[1] THEN TRUE
    ELSE IF a[1] > b[1] THEN FALSE
    ELSE StringLeq(Tail(a), Tail(b))

(***************************************************************************)
(* create_list (ui.rs).  The element made of an item is the item's title,   *)
(* subtitle and image; every WinRT call followed by ? either succeeds or    *)
(* makes the function return the error, the list control dropped.           *)
(***************************************************************************)
MaxItems == 3

ListItem(title, subtitle, image) ==
    [title |-> title, subtitle |-> subtitle, image |-> image]

\* the orders of 1..n
Orders(n) == { p \in [1..n -> 1..n] : \A i, j \in 1..n : i # j => p[i] # p[j] }

\* the outcomes of v.sort_unstable_by_key(|item| item.title.clone()): the
\* elements of v with the keys ascending, equal keys in whatever order
sort_unstable_by_key(v) ==
    { [i \in 1..Len(v) |-> v[p[i]]] :
        p \in { q \in Orders(Len(v)) :
                  \A i \in 1..(Len(v) - 1) : StringLeq(v[q[i]].title, v[q[i + 1]].title) } }

ListFail ==
    /\ lpc' = "failed"
    /\ list_control' = <<>>

\* the ListView is made and set up
NewListControl ==
    /\ lpc = "start"
    /\ \/ /\ lpc' = "sort"
          /\ UNCHANGED list_control
       \/ ListFail
    /\ UNCHANGED <<list_items, sorted_items>>
    /\ UNCHANGED <<scan_vars, icon_vars, xaml_vars, main_vars>>

\* let mut sorted_items = list.to_vec(); sorted_items.sort_unstable_by_key(..)
SortItems ==
    /\ lpc = "sort"
    /\ sorted_items' \in sort_unstable_by_key(list_items)
    /\ lpc' = "for"
    /\ UNCHANGED <<list_items, list_control>>
    /\ UNCHANGED <<scan_vars, icon_vars, xaml_vars, main_vars>>

\* one turn of for item in sorted_items: create_list_item(..)?, append(..)?
AppendItem ==
    /\ lpc = "for"
    /\ Len(list_control) < Len(sorted_items)
    /\ \/ /\ list_control' = Append(list_control, sorted_items[Len(list_control) + 1])
          /\ UNCHANGED lpc
       \/ ListFail
    /\ UNCHANGED <<list_items, sorted_items>>
    /\ UNCHANGED <<scan_vars, icon_vars, xaml_vars, main_vars>>

\* list_control.set_selected_index(0)?; Ok(list_control.into())
SetSelectedIndex ==
    /\ lpc = "for"
    /\ Len(list_control) = Len(sorted_items)
    /\ \/ /\ lpc' = "done"
          /\ UNCHANGED list_control
       \/ ListFail
    /\ UNCHANGED <<list_items, sorted_items>>
    /\ UNCHANGED <<scan_vars, icon_vars, xaml_vars, main_vars>>

create_list ==
    \/ NewListControl
    \/ SortItems
    \/ AppendItem
    \/ SetSelectedIndex

NextList ==
    \/ NewListControl
    \/ SortItems
    \/ AppendItem
    \/ SetSelectedIndex

Titles == {UTF8("Alpha"), UTF8("Zeta"), UTF8("alpha")}
Subtitles == {UTF8("1.0"), UTF8("2.0")}
ListItems == { ListItem(t, sub, "image") : t \in Titles, sub \in Subtitles }

\* the vectors of at most max elements of S
Vectors(S, max) == UNION { [1..n -> S] : n \in 0..max }

InitList ==
    /\ ScanIdle
    /\ IconIdle
    /\ XamlIdle
    /\ MainIdle
    /\ lpc = "start"
    /\ list_items \in Vectors(ListItems, MaxItems)
    /\ sorted_items = <<>>
    /\ list_control = <<>>

SpecList == InitList /\ [][NextList]_vars

(***************************************************************************)
(* main (main.rs), from the scan result on.  result is the vector the scan  *)
(* returned (browsers of main).  The list shown is the one create_list of   *)
(* ui.rs makes of list_items, a title each.  The event loop calls the       *)
(* closure once per event, with whatever event comes.  Exit is sticky: once *)
(* the closure has set it, the loop hands the closure a throw-away          *)
(* ControlFlow::Exit for the events it still delivers.  LoopDestroyed is    *)
(* the last event of a run.                                                 *)
(***************************************************************************)
MaxBrowsers == 2
MaxEvents == 3

\* format!("{} ({})", browser_entry.name, browser_entry.version), the
\* version printed as its product version
Format(browser_entry) ==
    UTF8(browser_entry.name) \o <<32, 40>>
        \o UTF8(browser_entry.version.product_version) \o <<41>>

\* .rev().collect()
Rev(v) == [i \in 1..Len(v) |-> v[Len(v) + 1 - i]]

\* let list_items = browsers.iter().map(..).rev().collect(); create_list(..)
MakeListItems ==
    /\ mpc = "list_items"
    /\ list_items' = Rev([i \in 1..Len(result) |-> ListItem(Format(result[i]), <<>>, "image")])
    /\ lpc' = "start"
    /\ mpc' = "create_list"
    /\ UNCHANGED <<sorted_items, list_control, control_flow, event, events, opened>>
    /\ UNCHANGED <<scan_vars, icon_vars, xaml_vars>>

\* event_loop.run(..), create_list having returned
Run ==
    /\ mpc = "create_list"
    /\ lpc \in {"done", "failed"}
    /\ mpc' = "run"
    /\ UNCHANGED <<control_flow, event, events, opened>>
    /\ UNCHANGED <<scan_vars, icon_vars, xaml_vars, list_vars>>

Event(kind, window_id, state, index) ==
    [kind |-> kind, window_id |-> window_id, state |-> state, index |-> index]

Handled(flow, urls, panicked) ==
    [control_flow |-> flow, open_url |-> urls, panicked |-> panicked]

\* the closure given to event_loop.run: the ControlFlow it leaves in its
\* parameter, the browsers it calls open_url with, whether it panics
event_handler(e) ==
    IF e.kind = "CloseRequested" /\ e.window_id = "window"
    THEN Handled("Exit", <<>>, FALSE)
    ELSE IF e.kind = "Resized"
    THEN Handled("Wait", <<>>, FALSE)
    ELSE IF e.kind = "KeyboardInput" /\ e.state = "Pressed"
    THEN Handled("Wait", <<>>, FALSE)
    ELSE IF e.kind = "Close"
    THEN Handled("Exit", <<>>, FALSE)
    ELSE IF e.kind = "BrowserSelected"
    THEN IF e.index < Len(result)
         THEN Handled("Exit", <<result[e.index + 1]>>, FALSE)
         ELSE Handled("Wait", <<>>, TRUE)
    ELSE Handled("Wait", <<>>, FALSE)

\* one call of the closure by the event loop
Deliver(e) ==
    /\ mpc = "run"
    /\ events < MaxEvents
    /\ event' = e
    /\ events' = events + 1
    /\ LET handled == event_handler(e)
       IN  /\ opened' = opened \o handled.open_url
           /\ control_flow' = IF control_flow = "Exit" THEN "Exit"
                              ELSE handled.control_flow
           /\ mpc' = IF handled.panicked THEN "panicked"
                     ELSE IF e.kind = "LoopDestroyed" THEN "exited"
                     ELSE "run"
    /\ UNCHANGED <<scan_vars, icon_vars, xaml_vars, list_vars>>

\* the list the window shows
Shown == IF lpc = "done" THEN list_control ELSE <<>>

WindowEvents ==
    { Event(k, w, s, 0) : k \in {"CloseRequested", "Resized", "KeyboardInput", "Focused"},
                          w \in {"window", "other"},
                          s \in {"Pressed", "Released"} }

WindowEvent == \E e \in WindowEvents : Deliver(e)

UserEventClose == Deliver(Event("Close", "none", "Released", 0))

\* item_index is a u32 nothing in main bounds; here up to one past the
\* longest scan result
UserEventBrowserSelected ==
    \E item_index \in 0..MaxBrowsers :
        Deliver(Event("BrowserSelected", "none", "Released", item_index))

\* the loop shutting down, Exit set or not
LoopDestroyed == Deliver(Event("LoopDestroyed", "none", "Released", 0))

NextMain ==
    \/ MakeListItems
    \/ create_list
    \/ Run
    \/ WindowEvent
    \/ UserEventClose
    \/ UserEventBrowserSelected
    \/ LoopDestroyed

BrowserOfName(name, version) ==
    [DefaultBrowser EXCEPT !.name = name, !.version.product_version = version]

Browsers == { BrowserOfName(n, "1.0") : n \in {"Alpha", "Zeta", "alpha"} }

InitMain ==
    /\ fs = <<Root(<<>>), Root(<<>>)>>
    /\ existing = {}
    /\ debug_assertions = FALSE
    /\ pc = "returned"
    /\ dir_idx = 1
    /\ pos = 1
    /\ browsers = <<>>
    /\ reading_results = Ok("")
    /\ stdout = <<>>
    /\ result \in Vectors(Browsers, MaxBrowsers)
    /\ IconIdle
    /\ XamlIdle
    /\ ListIdle
    /\ mpc = "list_items"
    /\ control_flow = "Poll"
    /\ event = NoEvent
    /\ events = 0
    /\ opened = <<>>

SpecMain == InitMain /\ [][NextMain]_vars

\* C11: the buffer given to the bitmap construction, for an image of
\* bmWidth x bmHeight, has exactly bmWidth*bmHeight*4 bytes; a source that
\* is not of 32 bits per pixel never comes as far as the construction.
C11_BufferIsWidthHeightFour ==
    (ipc = "create_copy" \/ iret = "ok") =>
        /\ written = dib.bmWidth * dib.bmHeight * 4
        /\ dib.bmBitsPixel = 32

\* C12: the bitmap set on the image source is BGRA8 with premultiplied
\* alpha, and the conversion has been applied exactly when the pixel format
\* of the bitmap given is not BGRA8.
C12_ImageIsBgra8Premultiplied ==
    (xpc \in {"set_bitmap_async", "set_source"} \/ xret = "ok") =>
        /\ bgra8_bmp = [format |-> "Bgra8", alpha |-> "Premultiplied"]
        /\ converted <=> (bmp.format # "Bgra8")

\* C13: the list create_list returns is a permutation of the items given,
\* ascending by title in byte-wise order, and items of equal title keep the
\* order they were given in.
C13_SortedStablePermutation ==
    lpc = "done" =>
        \E p \in Orders(Len(list_items)) :
            /\ list_control = [i \in 1..Len(list_items) |-> list_items[p[i]]]
            /\ \A i, j \in 1..Len(list_items) :
                  i < j =>
                      /\ StringLeq(list_control[i].title, list_control[j].title)
                      /\ list_control[i].title = list_control[j].title => p[i] < p[j]

\* C14: every Browser record the scan lists has a non-empty name.
C14_NameNeverEmpty ==
    /\ \A k \in 1..Len(browsers) : browsers[k].name # ""
    /\ \A k \in 1..Len(result) : result[k].name # ""

\* C15: when the closure has handled BrowserSelected(i), i is an index of
\* the scan result and the browser open_url was called with is the one whose
\* item the list shows at position i.
C15_OpenedIsTheOneShown ==
    (events > 0 /\ event.kind = "BrowserSelected") =>
        /\ mpc # "panicked"
        /\ event.index < Len(result)
        /\ event.index < Len(Shown)
        /\ opened # <<>>
        /\ Format(opened[Len(opened)]) = Shown[event.index + 1].title

\* the events on which the closure sets ControlFlow::Exit
ExitEvent(e) ==
    \/ e.kind = "CloseRequested" /\ e.window_id = "window"
    \/ e.kind = "Close"
    \/ e.kind = "BrowserSelected"

\* C16: in every call of the closure, open_url has been called at most once
\* in the run and is called only for BrowserSelected; CloseRequested of the
\* main window, Close and BrowserSelected leave the control flow at Exit;
\* any other event, the loop not yet exiting, leaves it at Wait and calls
\* open_url not.
C16_OpenAtMostOnceAndExit ==
    [][ (events' = events + 1) =>
            /\ Len(opened') <= 1
            /\ (opened' # opened) => event'.kind = "BrowserSelected"
            /\ ExitEvent(event') => control_flow' = "Exit"
            /\ (~ExitEvent(event') /\ control_flow # "Exit") =>
                   (control_flow' = "Wait" /\ opened' = opened) ]_vars

====
